---------------------------- MODULE Spec2Model ----------------------------
(***************************************************************************)
(* A model of eva: the FrankaEnv control environment (src/eva/env.py) and  *)
(* the bootstrap chain that resolves a control handle (src/eva/eva.py).    *)
(*                                                                         *)
(* Five specifications share the module:                                   *)
(*   Spec     - one FrankaEnv: action-space configuration, step, reset;    *)
(*   SpecObs  - one FrankaEnv: calibration, extrinsics, get_observation;   *)
(*   SpecBoot - init() and init_context(): the fallback chain and the      *)
(*              scoped acquisition of the resolved handle;                 *)
(*   SpecObsRace  - get_observation line by line against a second          *)
(*              caller's reload_calibration;                               *)
(*   SpecInitRace - initialize line by line against a second caller's      *)
(*              step.                                                      *)
(* Strings the code inspects with `in` are sequences of tokens, so that a  *)
(* substring test is a search and a concatenation is \o.                   *)
(***************************************************************************)
EXTENDS Integers, Sequences, FiniteSets, TLC

VARIABLES
    \* FrankaEnv fields (env.py:120-128)
    action_space, check_action_range, DoF, gripper_action_space,
    \* FrankaEnv.calibration_dict (env.py:28) and what load_calibration_info reads
    calibration_dict, calibration_file,
    \* FrankaEnv.camera_type_dict (env.py:29)
    camera_type,
    \* the most recent call on the environment, what it returned or raised,
    \* and the collaborator calls it issued
    call, outcome, robot_log, camera_log,
    \* init() / init_context() (eva.py:7-38)
    pc, world, runner, env, attempts, clients, raised, closed,
    \* a call on the environment that a second caller has in progress: its
    \* arguments, its local variables and the line it is about to execute
    inflight

envVars == <<action_space, check_action_range, DoF, gripper_action_space>>
calVars == <<calibration_dict, calibration_file, camera_type>>
ioVars == <<call, outcome, robot_log, camera_log>>
bootVars == <<pc, world, runner, env, attempts, clients, raised, closed>>
vars == <<envVars, calVars, ioVars, bootVars, inflight>>

---------------------------------------------------------------------------
(* Bounds of the model *)

\* action vectors have at most MaxLen elements
MaxLen == 9
\* the elements of an action vector range over -MaxVal..MaxVal
MaxVal == 2
\* a calibration file holds at most MaxCams entries
MaxCams == 2

---------------------------------------------------------------------------
(* Strings as token sequences *)

\* Python's `sub in s` for a one-token needle
Contains(s, tok) == \E i \in 1..Len(s) : s[i] = tok

cartesian_position == <<"cartesian", "_", "position">>
joint_position == <<"joint", "_", "position">>
cartesian_velocity == <<"cartesian", "_", "velocity">>
joint_velocity == <<"joint", "_", "velocity">>

\* the list of env.py:122
ValidActionSpaces ==
    {cartesian_position, joint_position, cartesian_velocity, joint_velocity}

\* what a caller may pass as action_space: the four names and some others
ActionSpaceArgs ==
    ValidActionSpaces \cup
        {<<"cartesian">>, <<"velocity">>, <<"joint", "_", "torque">>,
         <<"cartesian", "_", "joint", "_", "velocity">>, <<>>}

\* gripper_action_space is stored unchecked (env.py:127-128)
GripperSpaceArgs == {"position", "velocity", "torque"}

\* the camera_kwargs argument of initialize
CameraKwargs == {"default", "depth"}

\* what update_command may return
ActionInfos == {"info_a", "info_b"}

\* an action vector: zero everywhere but (perhaps) at one position
Vec(n, k, v) == [i \in 1..n |-> IF i = k THEN v ELSE 0]
Actions ==
    {Vec(n, k, v) : n \in 0..MaxLen, k \in 1..MaxLen, v \in (-MaxVal)..MaxVal}

RECURSIVE SeqMax(_), SeqMin(_)
\* ndarray.max() and ndarray.min() of a non-empty vector
SeqMax(s) ==
    IF Len(s) = 1 THEN s[1]
    ELSE LET m == SeqMax(Tail(s)) IN IF s[1] >= m THEN s[1] ELSE m
SeqMin(s) ==
    IF Len(s) = 1 THEN s[1]
    ELSE LET m == SeqMin(Tail(s)) IN IF s[1] <= m THEN s[1] ELSE m

---------------------------------------------------------------------------
(* Errors: the statement that raised *)

\* the assert of env.py:42, which carries the dimension message
LengthMismatchError == [type |-> "AssertionError", at |-> "step:len"]
\* the assert of env.py:44
RangeError == [type |-> "AssertionError", at |-> "step:range"]
\* the assert of env.py:122
InvalidConfig == [type |-> "AssertionError", at |-> "set_action_space"]
\* an exception of the camera collaborator's set_camera_kwargs
CameraError == [type |-> "Exception", at |-> "set_camera_kwargs"]
NoError == [type |-> "none", at |-> "none"]

Ok(v) == [status |-> "ok", error |-> NoError, value |-> v]
Err(e) == [status |-> "error", error |-> e, value |-> "none"]

---------------------------------------------------------------------------
(* Robot collaborator calls *)

\* FrankaEnv.reset_joints (env.py:18), named not spelled out
reset_joints == "reset_joints"

UpdateGripper(value, velocity, blocking) ==
    [fn |-> "update_gripper", arg |-> <<value>>, velocity |-> velocity,
     blocking |-> blocking, cartesian_noise |-> "n/a",
     action_space |-> <<>>, gripper_action_space |-> "n/a"]
UpdateJoints(joints, velocity, blocking, noise) ==
    [fn |-> "update_joints", arg |-> <<joints>>, velocity |-> velocity,
     blocking |-> blocking, cartesian_noise |-> noise,
     action_space |-> <<>>, gripper_action_space |-> "n/a"]
UpdateCommand(action, space, gripper, blocking) ==
    [fn |-> "update_command", arg |-> action, velocity |-> FALSE,
     blocking |-> blocking, cartesian_noise |-> "n/a",
     action_space |-> space, gripper_action_space |-> gripper]

\* faulty variant: the joints are sent home before the gripper is opened,
\* and the gripper command does not block
ResetCalls_JointsFirst ==
    << UpdateJoints(reset_joints, FALSE, TRUE, "None"),
       UpdateGripper(0, FALSE, FALSE) >>

\* the calls of FrankaEnv.reset, in order
ResetCalls ==
    << UpdateGripper(0, FALSE, TRUE),
       UpdateJoints(reset_joints, FALSE, TRUE, "None") >>

---------------------------------------------------------------------------
(* FrankaEnv: configuration, step, reset *)

\* faulty variant: the frame test of env.py:125 looks for the wrong frame
SetActionSpaceFields_WrongFrame(space) ==
    /\ action_space' = space
    /\ check_action_range' = Contains(space, "velocity")
    /\ DoF' = IF Contains(space, "joint") THEN 7 ELSE 8

\* set_action_space: the three assignments of env.py:123-125
SetActionSpaceFields(space) ==
    /\ action_space' = space
    /\ check_action_range' = Contains(space, "velocity")
    /\ DoF' = IF Contains(space, "cartesian") THEN 7 ELSE 8

set_action_space(space) ==
    /\ call' = [op |-> "set_action_space", action_space |-> space]
    /\ robot_log' = <<>>
    /\ camera_log' = <<>>
    /\ IF space \in ValidActionSpaces
       THEN /\ SetActionSpaceFields(space)
            /\ outcome' = Ok("None")
       ELSE /\ UNCHANGED <<action_space, check_action_range, DoF>>
            /\ outcome' = Err(InvalidConfig)
    /\ UNCHANGED <<gripper_action_space, calVars, bootVars, inflight>>

set_gripper_action_space(gripper) ==
    /\ call' = [op |-> "set_gripper_action_space", gripper_action_space |-> gripper]
    /\ robot_log' = <<>>
    /\ camera_log' = <<>>
    /\ gripper_action_space' = gripper
    /\ outcome' = Ok("None")
    /\ UNCHANGED <<action_space, check_action_range, DoF, calVars, bootVars,
                   inflight>>

\* faulty variant: initialize stores the gripper action space before it validates
\* the action space
initialize_GripperFirst(space, gripper, kwargs, cameraOk) ==
    /\ call' = [op |-> "initialize", action_space |-> space,
                gripper_action_space |-> gripper, camera_kwargs |-> kwargs]
    /\ gripper_action_space' = gripper
    /\ IF space \notin ValidActionSpaces
       THEN /\ UNCHANGED <<action_space, check_action_range, DoF>>
            /\ camera_log' = <<>>
            /\ robot_log' = <<>>
            /\ outcome' = Err(InvalidConfig)
       ELSE /\ SetActionSpaceFields(space)
            /\ camera_log' = <<[fn |-> "set_camera_kwargs", arg |-> kwargs]>>
            /\ IF cameraOk
               THEN /\ robot_log' = ResetCalls
                    /\ outcome' = Ok("None")
               ELSE /\ robot_log' = <<>>
                    /\ outcome' = Err(CameraError)
    /\ UNCHANGED <<calVars, bootVars, inflight>>

\* faulty variant: initialize configures the cameras and resets the robot
\* before it configures the action space
initialize_ActionSpaceLast(space, gripper, kwargs, cameraOk) ==
    /\ call' = [op |-> "initialize", action_space |-> space,
                gripper_action_space |-> gripper, camera_kwargs |-> kwargs]
    /\ camera_log' = <<[fn |-> "set_camera_kwargs", arg |-> kwargs]>>
    /\ IF ~cameraOk
       THEN /\ UNCHANGED envVars
            /\ robot_log' = <<>>
            /\ outcome' = Err(CameraError)
       ELSE /\ robot_log' = ResetCalls
            /\ IF space \notin ValidActionSpaces
               THEN /\ UNCHANGED envVars
                    /\ outcome' = Err(InvalidConfig)
               ELSE /\ SetActionSpaceFields(space)
                    /\ gripper_action_space' = gripper
                    /\ outcome' = Ok("None")
    /\ UNCHANGED <<calVars, bootVars, inflight>>

\* initialize: set_action_space, set_gripper_action_space, set_camera_kwargs,
\* reset; an exception ends it where it is raised
initialize(space, gripper, kwargs, cameraOk) ==
    /\ call' = [op |-> "initialize", action_space |-> space,
                gripper_action_space |-> gripper, camera_kwargs |-> kwargs]
    /\ IF space \notin ValidActionSpaces
       THEN /\ UNCHANGED envVars
            /\ camera_log' = <<>>
            /\ robot_log' = <<>>
            /\ outcome' = Err(InvalidConfig)
       ELSE /\ SetActionSpaceFields(space)
            /\ gripper_action_space' = gripper
            /\ camera_log' = <<[fn |-> "set_camera_kwargs", arg |-> kwargs]>>
            /\ IF cameraOk
               THEN /\ robot_log' = ResetCalls
                    /\ outcome' = Ok("None")
               ELSE /\ robot_log' = <<>>
                    /\ outcome' = Err(CameraError)
    /\ UNCHANGED <<calVars, bootVars, inflight>>

\* faulty variant: the length assert lets a longer vector through
ActionLengthOk_AtLeast(action) == Len(action) >= DoF

\* the condition of the assert of env.py:42
ActionLengthOk(action) == Len(action) = DoF

\* faulty variant: the range assert forgets the lower bound
ActionRangeOk_MaxOnly(action) == SeqMax(action) <= 1

\* the condition of the assert of env.py:44
ActionRangeOk(action) == (SeqMax(action) <= 1) /\ (SeqMin(action) >= -1)

\* faulty variant: step calls update_robot without the configured spaces, so
\* that the defaults of env.py:60 go to update_command
step_DefaultSpaces(action, action_info) ==
    /\ call' = [op |-> "step", action |-> action, action_info |-> action_info]
    /\ camera_log' = <<>>
    /\ IF ~ActionLengthOk(action)
       THEN /\ robot_log' = <<>>
            /\ outcome' = Err(LengthMismatchError)
       ELSE IF check_action_range /\ ~ActionRangeOk(action)
       THEN /\ robot_log' = <<>>
            /\ outcome' = Err(RangeError)
       ELSE /\ robot_log' =
                  <<UpdateCommand(action, cartesian_velocity, "velocity", FALSE)>>
            /\ outcome' = Ok(action_info)
    /\ UNCHANGED <<envVars, calVars, bootVars, inflight>>

\* step: the two asserts, then update_robot, which forwards to update_command;
\* action_info is what update_command returns when it is called
step(action, action_info) ==
    /\ call' = [op |-> "step", action |-> action, action_info |-> action_info]
    /\ camera_log' = <<>>
    /\ IF ~ActionLengthOk(action)
       THEN /\ robot_log' = <<>>
            /\ outcome' = Err(LengthMismatchError)
       ELSE IF check_action_range /\ ~ActionRangeOk(action)
       THEN /\ robot_log' = <<>>
            /\ outcome' = Err(RangeError)
       ELSE /\ robot_log' =
                  <<UpdateCommand(action, action_space, gripper_action_space, FALSE)>>
            /\ outcome' = Ok(action_info)
    /\ UNCHANGED <<envVars, calVars, bootVars, inflight>>

reset ==
    /\ call' = [op |-> "reset"]
    /\ camera_log' = <<>>
    /\ robot_log' = ResetCalls
    /\ outcome' = Ok("None")
    /\ UNCHANGED <<envVars, calVars, bootVars, inflight>>

---------------------------------------------------------------------------
(* Calibration maps, poses and the extrinsics correction *)

\* eva.utils.parameters.hand_camera_id (env.py:9): the tag of a wrist camera
hand_camera_id == "hand"
\* the suffix of env.py:89
gripper_offset == "_gripper_offset"

\* the cameras of the camera collaborator
Cameras == {<<"cam1">>, <<"hand">>}
\* the camera-ids a calibration file may hold
CalibrationIds == Cameras \cup {<<"hand", "_gripper_offset">>}

\* poses: planar rigid motions <<x, y, quarter turns>>
RawPoses == {<<1, 0, 0>>, <<0, 2, 1>>}
EEPoses == {<<0, 0, 0>>, <<3, 1, 1>>}

\* a vector turned by r quarter turns
Rotate(r, v) ==
    CASE r = 0 -> v
      [] r = 1 -> <<-v[2], v[1]>>
      [] r = 2 -> <<-v[1], -v[2]>>
      [] OTHER -> <<v[2], -v[1]>>

\* change_pose_frame(pose, frame): pose, given in frame, expressed in frame's
\* own reference: the rotation of frame applied to pose, then frame's offset
change_pose_frame(pose, frame) ==
    LET t == Rotate(frame[3], <<pose[1], pose[2]>>)
    IN  <<t[1] + frame[1], t[2] + frame[2], (pose[3] + frame[3]) % 4>>

\* a Python dict in insertion order: a sequence of entries with distinct ids
Entry(k, v) == [id |-> k, pose |-> v]
DictKeys(d) == {d[i].id : i \in 1..Len(d)}
DictGet(d, k) == d[CHOOSE i \in 1..Len(d) : d[i].id = k].pose
DictSet(d, k, v) ==
    IF k \in DictKeys(d)
    THEN [i \in 1..Len(d) |-> IF d[i].id = k THEN Entry(k, v) ELSE d[i]]
    ELSE Append(d, Entry(k, v))

\* what load_calibration_info may return: the dicts over CalibrationIds
CalibrationMaps ==
    {d \in UNION {[1..n -> [id : CalibrationIds, pose : RawPoses]] :
                    n \in 0..MaxCams} :
        \A i, j \in 1..Len(d) : d[i].id = d[j].id => i = j}

\* the loop body of get_camera_extrinsics for one cam_id (env.py:86-90)
AdjustCamera(extrinsics, cam_id, gripper_pose) ==
    IF ~Contains(cam_id, hand_camera_id)
    THEN extrinsics
    ELSE LET kept == DictSet(extrinsics, cam_id \o <<gripper_offset>>,
                             DictGet(extrinsics, cam_id))
         IN  DictSet(kept, cam_id,
                     change_pose_frame(DictGet(kept, cam_id), gripper_pose))

RECURSIVE AdjustFrom(_, _, _, _)
\* the loop of env.py:85 over the keys of the calibration dict, from the i-th
AdjustFrom(extrinsics, calibration, i, gripper_pose) ==
    IF i > Len(calibration)
    THEN extrinsics
    ELSE AdjustFrom(AdjustCamera(extrinsics, calibration[i].id, gripper_pose),
                    calibration, i + 1, gripper_pose)

\* get_camera_extrinsics on a deep copy of the calibration dict
get_camera_extrinsics(calibration, state_dict) ==
    AdjustFrom(calibration, calibration, 1, state_dict.cartesian_position)

\* the camera_type_dict of eva.utils.parameters that env.py:29 stores
camera_type_dict == [c \in Cameras |-> IF Contains(c, hand_camera_id) THEN 0 ELSE 1]

GetRobotState ==
    [fn |-> "get_robot_state", arg |-> <<>>, velocity |-> FALSE,
     blocking |-> TRUE, cartesian_noise |-> "n/a",
     action_space |-> <<>>, gripper_action_space |-> "n/a"]

\* faulty variant: get_observation without the deepcopy of lines 84 and 107:
\* the correction is written into the stored dict, and the observation
\* hands out the stored objects
get_observation_NoDeepcopy(gripper_pose, frames, intrinsics) ==
    LET state_dict == [cartesian_position |-> gripper_pose]
        extrinsics == get_camera_extrinsics(calibration_dict, state_dict)
    IN  /\ call' = [op |-> "get_observation"]
        /\ robot_log' = <<GetRobotState>>
        /\ camera_log' = <<[fn |-> "read_cameras", arg |-> "none"],
                            [fn |-> "get_intrinsics", arg |-> "none"]>>
        /\ calibration_dict' = extrinsics
        /\ outcome' = Ok([robot_state |-> state_dict,
                           cameras |-> frames,
                           camera_type |-> camera_type,
                           camera_extrinsics |-> extrinsics,
                           camera_intrinsics |->
                               [c \in intrinsics |-> "cameraMatrix"],
                           shares |-> {"calibration_dict", "camera_type_dict"}])
        /\ UNCHANGED <<envVars, calibration_file, camera_type, bootVars,
                       inflight>>

\* get_observation: robot state, camera frames, camera_type, corrected
\* extrinsics, intrinsics. gripper_pose is the pose get_robot_state reports,
\* frames the cameras read_cameras returns payloads for, intrinsics the
\* cameras whose get_intrinsics reports a matrix. camera_type and
\* camera_extrinsics are deep copies (lines 107 and 84): shares names the
\* stored objects the returned maps are, and there are none.
get_observation(gripper_pose, frames, intrinsics) ==
    LET state_dict == [cartesian_position |-> gripper_pose]
    IN  /\ call' = [op |-> "get_observation"]
        /\ robot_log' = <<GetRobotState>>
        /\ camera_log' = <<[fn |-> "read_cameras", arg |-> "none"],
                            [fn |-> "get_intrinsics", arg |-> "none"]>>
        /\ outcome' = Ok([robot_state |-> state_dict,
                           cameras |-> frames,
                           camera_type |-> camera_type,
                           camera_extrinsics |->
                               get_camera_extrinsics(calibration_dict, state_dict),
                           camera_intrinsics |->
                               [c \in intrinsics |-> "cameraMatrix"],
                           shares |-> {}])
        /\ UNCHANGED <<envVars, calVars, bootVars, inflight>>

\* the caller of get_observation empties the two maps of the observation it
\* was handed; an object the observation shares with the environment is
\* emptied with it
observation_mutated ==
    /\ call.op = "get_observation"
    /\ outcome.status = "ok"
    /\ call' = [op |-> "observation_mutated"]
    /\ outcome' = Ok("None")
    /\ calibration_dict' = IF "calibration_dict" \in outcome.value.shares
                           THEN <<>>
                           ELSE calibration_dict
    /\ camera_type' = IF "camera_type_dict" \in outcome.value.shares
                      THEN <<>>
                      ELSE camera_type
    /\ UNCHANGED <<envVars, calibration_file, robot_log, camera_log, bootVars,
                   inflight>>

\* the record of a reload_calibration call: what load_calibration_info
\* returned, and whether the call directly follows a reload_calibration that
\* read the same content
ReloadCall ==
    [op |-> "reload_calibration",
     loaded |-> calibration_file,
     repeat |-> IF call.op = "reload_calibration"
                THEN call.loaded = calibration_file
                ELSE FALSE]

\* faulty variant: the loaded entries are added to the stored dict
reload_calibration_Extends ==
    /\ call' = ReloadCall
    /\ robot_log' = <<>>
    /\ camera_log' = <<>>
    /\ calibration_dict' = calibration_dict \o calibration_file
    /\ outcome' = Ok("None")
    /\ UNCHANGED <<envVars, calibration_file, camera_type, bootVars,
                   inflight>>

\* reload_calibration: the stored dict is replaced by what the file holds
reload_calibration ==
    /\ call' = ReloadCall
    /\ robot_log' = <<>>
    /\ camera_log' = <<>>
    /\ calibration_dict' = calibration_file
    /\ outcome' = Ok("None")
    /\ UNCHANGED <<envVars, calibration_file, camera_type, bootVars,
                   inflight>>

\* the calibration file is rewritten outside the program
calibration_file_rewritten(d) ==
    /\ calibration_file' = d
    /\ UNCHANGED <<envVars, calibration_dict, camera_type, ioVars, bootVars,
                   inflight>>

\* the calibration of the environment of Spec
DefaultCalibration ==
    <<Entry(<<"cam1">>, <<1, 0, 0>>), Entry(<<"hand">>, <<0, 2, 1>>)>>

---------------------------------------------------------------------------
(* The state of init()/init_context() while no bootstrap is modelled *)

\* no call is in progress
NoFlight == [op |-> "none"]

BootIdle ==
    /\ pc = "idle"
    /\ world = "n/a"
    /\ runner = "none"
    /\ env = "none"
    /\ attempts = <<>>
    /\ clients = {}
    /\ raised = "none"
    /\ closed = {}

---------------------------------------------------------------------------
(* Spec: one FrankaEnv, its configuration, step and reset *)

\* FrankaEnv() with the defaults of env.py:15: __init__ ends with
\* initialize("cartesian_velocity", "velocity", {})
Init ==
    /\ action_space = cartesian_velocity
    /\ check_action_range = TRUE
    /\ DoF = 7
    /\ gripper_action_space = "velocity"
    /\ calibration_file = DefaultCalibration
    /\ calibration_dict = DefaultCalibration
    /\ camera_type = camera_type_dict
    /\ call = [op |-> "__init__"]
    /\ outcome = Ok("None")
    /\ robot_log = ResetCalls
    /\ camera_log = <<[fn |-> "set_camera_kwargs", arg |-> "default"]>>
    /\ BootIdle
    /\ inflight = NoFlight

Next ==
    \/ \E space \in ActionSpaceArgs : set_action_space(space)
    \/ \E gripper \in GripperSpaceArgs : set_gripper_action_space(gripper)
    \/ \E space \in ActionSpaceArgs, gripper \in GripperSpaceArgs,
          kwargs \in CameraKwargs, cameraOk \in BOOLEAN :
            initialize(space, gripper, kwargs, cameraOk)
    \/ \E action \in Actions, action_info \in ActionInfos : step(action, action_info)
    \/ reset

Spec == Init /\ [][Next]_vars

---------------------------------------------------------------------------
(* Claims about configuration and step, checked under Spec *)

\* the update_command calls among the collaborator calls of the last operation
UpdateCommandCalls == {i \in 1..Len(robot_log) : robot_log[i].fn = "update_command"}

VelocitySpaces == {cartesian_velocity, joint_velocity}
CartesianSpaces == {cartesian_position, cartesian_velocity}
JointSpaces == {joint_position, joint_velocity}

OutOfRange(action) == \E i \in 1..Len(action) : action[i] > 1 \/ action[i] < -1

\* C1: a step whose action vector's length differs from the configured DoF
\* fails with the length-mismatch error and issues no update_command (no
\* robot call at all), in every action space and after any reconfiguration.
C1_LengthMismatchNoHardware ==
    (call.op = "step" /\ Len(call.action) # DoF) =>
        /\ outcome = Err(LengthMismatchError)
        /\ UpdateCommandCalls = {}
        /\ robot_log = <<>>

\* a wrong-length step after the environment was reconfigured to a joint space
C1_Witness ==
    /\ call.op = "step"
    /\ Len(call.action) = 7
    /\ action_space = joint_position
    /\ DoF = 8
    /\ outcome.status = "error"

\* C2: in the velocity action spaces a step on a vector of length DoF with an
\* element above 1 or below -1 fails with the range error and issues no robot
\* call; with every element in [-1, 1] it succeeds and issues exactly one
\* robot call, an update_command.
C2_VelocityRangeCheck ==
    (call.op = "step" /\ action_space \in VelocitySpaces /\ Len(call.action) = DoF) =>
        IF OutOfRange(call.action)
        THEN outcome = Err(RangeError) /\ robot_log = <<>>
        ELSE /\ outcome.status = "ok"
             /\ Len(robot_log) = 1
             /\ UpdateCommandCalls = {1}

\* a right-length step in joint_velocity refused for an element below -1
C2_Witness ==
    /\ call.op = "step"
    /\ action_space = joint_velocity
    /\ Len(call.action) = DoF
    /\ \E i \in 1..Len(call.action) : call.action[i] < -1
    /\ outcome = Err(RangeError)

\* C9: in every reachable state the stored DoF and check_action_range agree
\* with the stored action_space: DoF is 7 iff the frame is cartesian and 8
\* iff it is joint, and check_action_range is true iff the mode is velocity.
C9_ConfigTable ==
    /\ action_space \in ValidActionSpaces
    /\ (DoF = 7) <=> (action_space \in CartesianSpaces)
    /\ (DoF = 8) <=> (action_space \in JointSpaces)
    /\ check_action_range <=> (action_space \in VelocitySpaces)

\* a failing configuration that follows a successful one to joint_position
C9_Witness ==
    /\ call.op \in {"set_action_space", "initialize"}
    /\ outcome = Err(InvalidConfig)
    /\ action_space = joint_position
    /\ DoF = 8
    /\ ~check_action_range

\* C10: configuring an action space outside the four names, by
\* set_action_space or by initialize, fails with InvalidConfig and leaves
\* action_space, DoF, check_action_range and gripper_action_space as they were.
C10_InvalidConfigKeepsState ==
    [][ ( /\ call'.op \in {"set_action_space", "initialize"}
          /\ call'.action_space \notin ValidActionSpaces )
        => ( /\ outcome' = Err(InvalidConfig)
             /\ UNCHANGED envVars ) ]_vars

\* initialize refused for its action space while asking for another gripper
\* action space than the stored one
C10_Witness ==
    /\ call.op = "initialize"
    /\ call.action_space \notin ValidActionSpaces
    /\ call.gripper_action_space # gripper_action_space
    /\ action_space = joint_position
    /\ outcome = Err(InvalidConfig)

\* the camera configuration initialize issues for the arguments of the call
CameraConfigured ==
    camera_log = <<[fn |-> "set_camera_kwargs", arg |-> call.camera_kwargs]>>

\* the stored configuration is the one the call asked for
ConfiguredAsAsked ==
    /\ action_space = call.action_space
    /\ gripper_action_space = call.gripper_action_space

\* C15: an environment that steps has completed initialize (the constructor
\* ends with it), and initialize configures the action space, then the
\* cameras, then resets: a refused action space leaves the cameras
\* unconfigured and the robot uncommanded, a failing camera configuration
\* comes after the configuration is stored and before any reset command, and
\* the two reset commands are issued only after both.
C15_InitializeOrder ==
    /\ action_space \in ValidActionSpaces
    /\ gripper_action_space \in GripperSpaceArgs
    /\ (call.op = "__init__") =>
            /\ outcome = Ok("None")
            /\ camera_log = <<[fn |-> "set_camera_kwargs", arg |-> "default"]>>
            /\ robot_log = ResetCalls
    /\ (call.op = "initialize") =>
            /\ (call.action_space \notin ValidActionSpaces) <=>
                   (outcome = Err(InvalidConfig))
            /\ (outcome = Err(InvalidConfig)) =>
                   (camera_log = <<>> /\ robot_log = <<>>)
            /\ (outcome = Err(CameraError)) =>
                   (ConfiguredAsAsked /\ CameraConfigured /\ robot_log = <<>>)
            /\ (outcome.status = "ok") =>
                   (ConfiguredAsAsked /\ CameraConfigured /\ robot_log = ResetCalls)
            /\ outcome.status = "ok" \/ outcome.error \in {InvalidConfig, CameraError}

\* initialize refused for its action space after a configuration to
\* cartesian_position: no camera configuration and no hardware command issued
C15_Witness ==
    /\ call.op = "initialize"
    /\ outcome = Err(InvalidConfig)
    /\ camera_log = <<>>
    /\ robot_log = <<>>
    /\ action_space = cartesian_position

\* C17: a step whose action passes validation (its length is DoF and, in a
\* velocity mode, its elements are within [-1, 1]; a position mode has no
\* bound) issues exactly one update_command, with the action unchanged, the
\* stored action space and gripper action space, and blocking off, issues
\* nothing else, and returns what update_command returned.
C17_ValidStepForwarded ==
    ( /\ call.op = "step"
      /\ ActionLengthOk(call.action)
      /\ check_action_range => ActionRangeOk(call.action) )
    => /\ outcome = Ok(call.action_info)
       /\ Len(robot_log) = 1
       /\ robot_log[1].fn = "update_command"
       /\ robot_log[1].arg = call.action
       /\ robot_log[1].action_space = action_space
       /\ robot_log[1].gripper_action_space = gripper_action_space
       /\ ~robot_log[1].blocking
       /\ camera_log = <<>>

\* a step in joint_position mode, configured by an initialize, with an
\* element outside [-1, 1]
C17_Witness ==
    /\ call.op = "step"
    /\ outcome = Ok("info_b")
    /\ action_space = joint_position
    /\ gripper_action_space = "position"
    /\ Len(call.action) = 8
    /\ OutOfRange(call.action)
    /\ robot_log = <<UpdateCommand(call.action, joint_position, "position", FALSE)>>

\* C16: reset issues exactly two hardware commands, both blocking and both
\* in position mode: first the gripper to its fully open value 0, then the
\* joints to the home configuration reset_joints with no cartesian noise;
\* each call blocks, so the second is issued after the first has completed
\* and reset returns after both.
C16_ResetCommands ==
    (call.op = "reset") =>
        /\ outcome = Ok("None")
        /\ Len(robot_log) = 2
        /\ robot_log[1].fn = "update_gripper"
        /\ robot_log[1].arg = <<0>>
        /\ ~robot_log[1].velocity
        /\ robot_log[1].blocking
        /\ robot_log[2].fn = "update_joints"
        /\ robot_log[2].arg = <<reset_joints>>
        /\ ~robot_log[2].velocity
        /\ robot_log[2].blocking
        /\ robot_log[2].cartesian_noise = "None"
        /\ camera_log = <<>>

\* a reset in joint_position mode with the position gripper space
C16_Witness ==
    /\ call.op = "reset"
    /\ outcome = Ok("None")
    /\ Len(robot_log) = 2
    /\ action_space = joint_position
    /\ gripper_action_space = "position"

---------------------------------------------------------------------------
(* SpecObs: one FrankaEnv, its calibration and its observations *)

\* the action vectors SpecObs steps with
ObsActions == {Vec(7, 0, 0), Vec(7, 1, 1), Vec(8, 0, 0)}

InitObs ==
    /\ action_space = cartesian_velocity
    /\ check_action_range = TRUE
    /\ DoF = 7
    /\ gripper_action_space = "velocity"
    /\ calibration_file \in CalibrationMaps
    /\ calibration_dict = calibration_file
    /\ camera_type = camera_type_dict
    /\ call = [op |-> "__init__"]
    /\ outcome = Ok("None")
    /\ robot_log = ResetCalls
    /\ camera_log = <<[fn |-> "set_camera_kwargs", arg |-> "default"]>>
    /\ BootIdle
    /\ inflight = NoFlight

NextObs ==
    \/ \E gripper_pose \in EEPoses, frames \in SUBSET Cameras,
          intrinsics \in SUBSET Cameras :
            get_observation(gripper_pose, frames, intrinsics)
    \/ observation_mutated
    \/ reload_calibration
    \/ \E d \in CalibrationMaps : calibration_file_rewritten(d)
    \/ \E action \in ObsActions : step(action, "info_a")
    \/ reset

SpecObs == InitObs /\ [][NextObs]_vars

---------------------------------------------------------------------------
(* Claims about observations and extrinsics, checked under SpecObs *)

\* the error section 7 of the design names for an incomplete observation;
\* no statement of get_observation raises it
IncompleteObservation ==
    [type |-> "IncompleteObservation", at |-> "get_observation"]

\* C7: get_observation never returns a partial observation: every camera-id
\* with a frame payload has an entry in camera_extrinsics and in
\* camera_intrinsics of the returned observation, or the call fails with
\* IncompleteObservation.
C7_NoPartialObservation ==
    (call.op = "get_observation") =>
        \/ outcome = Err(IncompleteObservation)
        \/ /\ outcome.status = "ok"
           /\ \A c \in outcome.value.cameras :
                /\ c \in DictKeys(outcome.value.camera_extrinsics)
                /\ c \in DOMAIN outcome.value.camera_intrinsics

\* C8: for every camera-id of the calibration map and every end-effector
\* pose, the corrected extrinsic of a wrist camera is
\* change_pose_frame(raw pose, end-effector pose) and the corrected extrinsic
\* of any other camera is its raw calibration pose.
C8_CorrectedExtrinsics ==
    (call.op = "get_observation" /\ outcome.status = "ok") =>
        LET extrinsics == outcome.value.camera_extrinsics
            gripper_pose == outcome.value.robot_state.cartesian_position
        IN  \A i \in 1..Len(calibration_dict) :
                LET cam_id == calibration_dict[i].id
                    raw == calibration_dict[i].pose
                IN  /\ cam_id \in DictKeys(extrinsics)
                    /\ DictGet(extrinsics, cam_id) =
                           IF Contains(cam_id, hand_camera_id)
                           THEN change_pose_frame(raw, gripper_pose)
                           ELSE raw

\* C18: for every calibration map and every wrist camera-id in it, the
\* corrected extrinsics hold, under <id>_gripper_offset, that camera's
\* uncorrected calibration pose, also when the map itself has keys that carry
\* the hand-camera tag or end in _gripper_offset.
C18_GripperOffsetPreserved ==
    (call.op = "get_observation" /\ outcome.status = "ok") =>
        LET extrinsics == outcome.value.camera_extrinsics
        IN  \A i \in 1..Len(calibration_dict) :
                LET cam_id == calibration_dict[i].id
                IN  Contains(cam_id, hand_camera_id) =>
                        /\ (cam_id \o <<gripper_offset>>) \in DictKeys(extrinsics)
                        /\ DictGet(extrinsics, cam_id \o <<gripper_offset>>) =
                               calibration_dict[i].pose

\* C19: get_observation, step and reset, and whatever a caller does to an
\* observation it was handed, leave the stored calibration map and the
\* stored camera_type metadata as they are: the stored map changes only in a
\* reload_calibration, which replaces it by the whole map of the file, the
\* camera_type metadata never changes, and the maps of an observation are
\* copies that share no object with the stored ones.
C19_StoredMapsUntouched ==
    [][ /\ (calibration_dict' # calibration_dict) =>
               /\ call'.op = "reload_calibration"
               /\ calibration_dict' = calibration_file
               /\ calibration_file' = calibration_file
        /\ camera_type' = camera_type
        /\ (call'.op = "get_observation" /\ outcome'.status = "ok") =>
               /\ outcome'.value.shares = {}
               /\ outcome'.value.camera_type = camera_type
               /\ calibration_dict' = calibration_dict ]_vars

\* a caller has emptied the maps of an observation of a wrist camera, and
\* the stored map still holds the camera
C19_Witness ==
    /\ call.op = "observation_mutated"
    /\ calibration_dict =
           <<Entry(<<"hand">>, <<1, 0, 0>>), Entry(<<"cam1">>, <<0, 2, 1>>)>>
    /\ camera_type = camera_type_dict

\* the end-effector states get_camera_extrinsics is evaluated for
StateDicts == {[cartesian_position |-> p] : p \in EEPoses}

\* C11: a reload_calibration that directly follows a reload_calibration of
\* the same calibration source leaves, for every robot pose, the corrected
\* extrinsics as the first reload left them.
C11_ReloadIdempotent ==
    [][(/\ call.op = "reload_calibration"
        /\ call.loaded = calibration_file
        /\ call'.op = "reload_calibration"
        /\ call'.loaded = calibration_file')
       => \A state_dict \in StateDicts :
              get_camera_extrinsics(calibration_dict', state_dict) =
                  get_camera_extrinsics(calibration_dict, state_dict)]_vars

C11_Witness ==
    /\ call.op = "reload_calibration"
    /\ call.repeat
    /\ \E i \in 1..Len(calibration_dict) :
            Contains(calibration_dict[i].id, hand_camera_id)
    /\ \A state_dict \in StateDicts :
            get_camera_extrinsics(calibration_dict, state_dict) =
                get_camera_extrinsics(calibration_file, state_dict)

---------------------------------------------------------------------------
(* SpecBoot: init() and init_context() of eva.py *)

\* the keywords of vars(args) when init_parser built args (eva.py:41-49)
ParserArgs ==
    {"controller", "controller_kwargs", "disable_saving",
     "disable_post_process", "record_depth", "record_pcd"}

\* the parameters of FrankaEnv.initialize (env.py:33), none with a default
InitializeParams == {"action_space", "gripper_action_space", "camera_kwargs"}

\* f(**kwargs) for an f whose parameters have no defaults: the call binds
\* when the keywords are the parameters, and raises TypeError otherwise
BindsTo(kwargs, params) == kwargs = params

\* What the calls of init() meet. A remote service is "ok" (the client
\* connects and the server runs the call), "connect_fails"
\* (load_runner/load_env raises) or "call_fails" (the client is built, the
\* call raises in transit). args is the set of keywords of vars(args):
\* those of init_parser, or those a caller passed to init. The environment
\* service serves a FrankaEnv (eva.py:75-87), so its initialize returns
\* when the keywords bind to the parameters of FrankaEnv.initialize.
\* local_env and orchestrator say whether FrankaEnv() and Runner(...)
\* construct; enter, body and exit whether runner.__enter__, the caller's
\* with-body and runner.__exit__ return normally.
ServiceStates == {"ok", "connect_fails", "call_fails"}
Worlds ==
    [orchestrator_service : ServiceStates, env_service : ServiceStates,
     args : {ParserArgs, InitializeParams},
     local_env : BOOLEAN, orchestrator : BOOLEAN,
     enter : BOOLEAN, body : BOOLEAN, exit : BOOLEAN]

Attempt(fn, ok) == [fn |-> fn, ok |-> ok]

\* the exception that leaves init(): the one the failing constructor raised
RaisedBy(fn) == [type |-> "Exception", at |-> fn]

InitBoot ==
    /\ action_space = cartesian_velocity
    /\ check_action_range = TRUE
    /\ DoF = 7
    /\ gripper_action_space = "velocity"
    /\ calibration_file = DefaultCalibration
    /\ calibration_dict = DefaultCalibration
    /\ camera_type = camera_type_dict
    /\ call = [op |-> "__init__"]
    /\ outcome = Ok("None")
    /\ robot_log = ResetCalls
    /\ camera_log = <<[fn |-> "set_camera_kwargs", arg |-> "default"]>>
    /\ inflight = NoFlight
    /\ pc = "load_runner"
    /\ world \in Worlds
    /\ runner = "none"
    /\ env = "none"
    /\ attempts = <<>>
    /\ clients = {}
    /\ raised = "none"
    /\ closed = {}

\* faulty variant: a failed connection to the orchestrator service goes straight
\* to local construction
load_runner_SkipsEnvService ==
    /\ pc = "load_runner"
    /\ IF world.orchestrator_service = "connect_fails"
       THEN /\ attempts' = Append(attempts, Attempt("load_runner", FALSE))
            /\ pc' = "FrankaEnv"
            /\ UNCHANGED <<runner, clients>>
       ELSE /\ attempts' = Append(attempts, Attempt("load_runner", TRUE))
            /\ runner' = "runner_client"
            /\ clients' = clients \cup {"runner_client"}
            /\ pc' = "runner.initialize"
    /\ UNCHANGED <<world, env, raised, closed, envVars, calVars, ioVars,
                   inflight>>

\* init, line 14: runner = load_runner(); an exception goes to the except of
\* line 16
load_runner ==
    /\ pc = "load_runner"
    /\ IF world.orchestrator_service = "connect_fails"
       THEN /\ attempts' = Append(attempts, Attempt("load_runner", FALSE))
            /\ pc' = "load_env"
            /\ UNCHANGED <<runner, clients>>
       ELSE /\ attempts' = Append(attempts, Attempt("load_runner", TRUE))
            /\ runner' = "runner_client"
            /\ clients' = clients \cup {"runner_client"}
            /\ pc' = "runner.initialize"
    /\ UNCHANGED <<world, env, raised, closed, envVars, calVars, ioVars,
                   inflight>>

\* init, line 15: runner.initialize(**vars(args)); on success init returns
\* the client (line 25)
runner_initialize ==
    /\ pc = "runner.initialize"
    /\ IF world.orchestrator_service = "ok"
       THEN /\ attempts' = Append(attempts, Attempt("runner.initialize", TRUE))
            /\ pc' = "resolved"
       ELSE /\ attempts' = Append(attempts, Attempt("runner.initialize", FALSE))
            /\ pc' = "load_env"
    /\ UNCHANGED <<world, runner, env, clients, raised, closed,
                   envVars, calVars, ioVars,
                   inflight>>

\* init, line 18: env = load_env(); an exception goes to the except of line 20
load_env ==
    /\ pc = "load_env"
    /\ IF world.env_service = "connect_fails"
       THEN /\ attempts' = Append(attempts, Attempt("load_env", FALSE))
            /\ pc' = "FrankaEnv"
            /\ UNCHANGED <<env, clients>>
       ELSE /\ attempts' = Append(attempts, Attempt("load_env", TRUE))
            /\ env' = "env_client"
            /\ clients' = clients \cup {"env_client"}
            /\ pc' = "env.initialize"
    /\ UNCHANGED <<world, runner, raised, closed, envVars, calVars, ioVars,
                   inflight>>

\* init, line 19: env.initialize(**vars(args)), which the environment
\* service runs as FrankaEnv.initialize(**vars(args))
env_initialize ==
    /\ pc = "env.initialize"
    /\ IF world.env_service = "ok" /\ BindsTo(world.args, InitializeParams)
       THEN /\ attempts' = Append(attempts, Attempt("env.initialize", TRUE))
            /\ pc' = "Runner"
       ELSE /\ attempts' = Append(attempts, Attempt("env.initialize", FALSE))
            /\ pc' = "FrankaEnv"
    /\ UNCHANGED <<world, runner, env, clients, raised, closed,
                   envVars, calVars, ioVars,
                   inflight>>

\* init, lines 21-22: env = FrankaEnv(); its exception leaves init
construct_FrankaEnv ==
    /\ pc = "FrankaEnv"
    /\ IF world.local_env
       THEN /\ attempts' = Append(attempts, Attempt("FrankaEnv", TRUE))
            /\ env' = "local_env"
            /\ pc' = "Runner"
            /\ UNCHANGED raised
       ELSE /\ attempts' = Append(attempts, Attempt("FrankaEnv", FALSE))
            /\ raised' = RaisedBy("FrankaEnv")
            /\ pc' = "raised"
            /\ UNCHANGED env
    /\ UNCHANGED <<world, runner, clients, closed, envVars, calVars, ioVars,
                   inflight>>

\* init, lines 23-24: runner = Runner(env=env, **vars(args)), outside both
\* try blocks; its exception leaves init
construct_Runner ==
    /\ pc = "Runner"
    /\ IF world.orchestrator
       THEN /\ attempts' = Append(attempts, Attempt("Runner", TRUE))
            /\ runner' = "local_runner"
            /\ pc' = "resolved"
            /\ UNCHANGED raised
       ELSE /\ attempts' = Append(attempts, Attempt("Runner", FALSE))
            /\ raised' = RaisedBy("Runner")
            /\ pc' = "raised"
            /\ UNCHANGED runner
    /\ UNCHANGED <<world, env, clients, closed, envVars, calVars, ioVars,
                   inflight>>

\* faulty variant: the try of init_context opens after the handle's context is
\* entered, so a failing __enter__ skips the finally
context_enter_OutsideTry ==
    /\ pc = "resolved"
    /\ IF runner = "runner_client"
       THEN /\ pc' = "body"
            /\ UNCHANGED <<attempts, raised>>
       ELSE IF world.enter
       THEN /\ attempts' = Append(attempts, Attempt("runner.__enter__", TRUE))
            /\ pc' = "body"
            /\ UNCHANGED raised
       ELSE /\ attempts' = Append(attempts, Attempt("runner.__enter__", FALSE))
            /\ raised' = RaisedBy("runner.__enter__")
            /\ pc' = "done"
    /\ UNCHANGED <<world, runner, env, clients, closed, envVars, calVars, ioVars,
                   inflight>>

\* init_context, lines 31-36: a zerorpc client is yielded as it is, any
\* other handle inside `with runner:`; an exception of __enter__ goes to the
\* finally
context_enter ==
    /\ pc = "resolved"
    /\ IF runner = "runner_client"
       THEN /\ pc' = "body"
            /\ UNCHANGED <<attempts, raised>>
       ELSE IF world.enter
       THEN /\ attempts' = Append(attempts, Attempt("runner.__enter__", TRUE))
            /\ pc' = "body"
            /\ UNCHANGED raised
       ELSE /\ attempts' = Append(attempts, Attempt("runner.__enter__", FALSE))
            /\ raised' = RaisedBy("runner.__enter__")
            /\ pc' = "finally"
    /\ UNCHANGED <<world, runner, env, clients, closed, envVars, calVars, ioVars,
                   inflight>>

\* the caller's with-body, run at the yield of line 33 or 36; what it raises
\* is thrown into the generator at the yield
context_body ==
    /\ pc = "body"
    /\ attempts' = Append(attempts, Attempt("body", world.body))
    /\ raised' = IF world.body THEN raised ELSE RaisedBy("body")
    /\ pc' = IF runner = "runner_client" THEN "finally" ELSE "exit"
    /\ UNCHANGED <<world, runner, env, clients, closed, envVars, calVars, ioVars,
                   inflight>>

\* the end of `with runner:` (line 35): runner.__exit__
context_exit ==
    /\ pc = "exit"
    /\ attempts' = Append(attempts, Attempt("runner.__exit__", world.exit))
    /\ raised' = IF world.exit THEN raised ELSE RaisedBy("runner.__exit__")
    /\ pc' = "finally"
    /\ UNCHANGED <<world, runner, env, clients, closed, envVars, calVars, ioVars,
                   inflight>>

\* init_context, lines 37-38: finally: runner.close()
context_finally ==
    /\ pc = "finally"
    /\ attempts' = Append(attempts, Attempt("runner.close", TRUE))
    /\ closed' = closed \cup {runner}
    /\ pc' = "done"
    /\ UNCHANGED <<world, runner, env, clients, raised, envVars, calVars, ioVars,
                   inflight>>

NextBoot ==
    \/ load_runner
    \/ runner_initialize
    \/ load_env
    \/ env_initialize
    \/ construct_FrankaEnv
    \/ construct_Runner
    \/ context_enter
    \/ context_body
    \/ context_exit
    \/ context_finally

SpecBoot == InitBoot /\ [][NextBoot]_vars

---------------------------------------------------------------------------
(* Claims about bootstrap resolution, checked under SpecBoot *)

Strategy1Calls == {"load_runner", "runner.initialize"}
Strategy2Calls == {"load_env", "env.initialize"}
Strategy3Calls == {"FrankaEnv"}

\* the positions in attempts of the calls named fns, and of those that raised
AttemptedAt(fns) == {i \in 1..Len(attempts) : attempts[i].fn \in fns}
FailedAt(fns) == {i \in AttemptedAt(fns) : ~attempts[i].ok}
SucceededAt(fn) == {i \in AttemptedAt({fn}) : attempts[i].ok}

\* init() has returned a handle
Resolved == pc \in {"resolved", "body", "exit", "finally", "done"}

\* C3: the strategies are tried in strict order and resolution stops at the
\* first success: the environment service is tried only after a call of the
\* orchestrator strategy has failed, local construction only after a call of
\* each remote strategy has failed, nothing is tried after a strategy has
\* succeeded, and when the orchestrator service answers, init returns its
\* client without trying the environment service or local construction.
C3_StrictOrderFirstSuccess ==
    /\ \A i \in AttemptedAt(Strategy2Calls) :
            /\ \E j \in FailedAt(Strategy1Calls) : j < i
            /\ SucceededAt("runner.initialize") = {}
    /\ \A i \in AttemptedAt(Strategy3Calls) :
            /\ \E j \in FailedAt(Strategy1Calls) : j < i
            /\ \E j \in FailedAt(Strategy2Calls) : j < i
            /\ SucceededAt("env.initialize") = {}
    /\ \A i \in AttemptedAt({"Runner"}) :
            \/ \E j \in SucceededAt("env.initialize") : j < i
            \/ \E j \in SucceededAt("FrankaEnv") : j < i
    /\ (world.orchestrator_service = "ok") =>
            /\ AttemptedAt(Strategy2Calls \cup Strategy3Calls \cup {"Runner"}) = {}
            /\ pc # "raised"
            /\ Resolved => runner = "runner_client"

\* both services answer, and init has returned the orchestrator client
C3_Witness ==
    /\ world.orchestrator_service = "ok"
    /\ world.env_service = "ok"
    /\ pc = "resolved"
    /\ runner = "runner_client"
    /\ attempts = <<Attempt("load_runner", TRUE), Attempt("runner.initialize", TRUE)>>

\* a failure inside strategy 2: a call to the environment service raised, or
\* wrapping its client in a Runner did
Strategy2Failed ==
    \/ FailedAt(Strategy2Calls) # {}
    \/ (FailedAt({"Runner"}) # {} /\ SucceededAt("env.initialize") # {})

\* a failure inside strategy 3: FrankaEnv() raised, or Runner around it did
Strategy3Failed ==
    \/ FailedAt(Strategy3Calls) # {}
    \/ (FailedAt({"Runner"}) # {} /\ SucceededAt("FrankaEnv") # {})

\* C4: a failure inside strategy 1 or 2 is never escalated while a later
\* strategy is untried: an error reaches the caller of init only when all
\* three strategies have been tried and have failed.
C4_ErrorOnlyWhenAllFailed ==
    (pc = "raised") =>
        /\ FailedAt(Strategy1Calls) # {}
        /\ Strategy2Failed
        /\ AttemptedAt(Strategy3Calls) # {}
        /\ Strategy3Failed

\* C5: a handle obtained through init_context is released on every exit
\* path: when init_context has exited after init returned a handle, whether
\* the body finished, the body raised, or entering or leaving the handle's
\* own context raised, close() has been called on that handle.
C5_HandleClosedOnEveryExit ==
    (pc = "done") => (runner # "none" /\ runner \in closed)

\* init_context left by an exception of the local handle's __enter__, the
\* handle closed
C5_Witness ==
    /\ pc = "done"
    /\ runner = "local_runner"
    /\ raised = RaisedBy("runner.__enter__")
    /\ closed = {"local_runner"}

\* the orchestrator service does not answer and the environment service is up
EnvServiceOnly ==
    /\ world.orchestrator_service # "ok"
    /\ world.env_service = "ok"

\* C14: when the orchestrator service is unreachable and the environment
\* service is reachable, init never constructs a local FrankaEnv, and the
\* handle it returns is a locally constructed Runner around the environment
\* client.
C14_EnvServiceWrapped ==
    EnvServiceOnly =>
        /\ AttemptedAt(Strategy3Calls) = {}
        /\ Resolved => (runner = "local_runner" /\ env = "env_client")

\* init() has returned or raised
ResolutionOver == Resolved \/ pc = "raised"

\* the clients the returned handle is or wraps
ClientsOfHandle ==
    IF ~Resolved THEN {}
    ELSE IF runner = "local_runner" THEN {env} \cap {"env_client"}
    ELSE {runner}

\* C20: no RPC client leaks from resolution: once init has returned or
\* raised, every client a strategy opened is closed, except the client that
\* is the returned handle or that the returned handle wraps.
C20_NoClientLeak ==
    ResolutionOver => \A c \in clients : c \in closed \/ c \in ClientsOfHandle

---------------------------------------------------------------------------
(* SpecObsRace: a get_observation in progress while a second caller      *)
(* reloads the calibration. FrankaEnv takes no lock, and                 *)
(* get_camera_extrinsics reads self.calibration_dict twice (lines 84 and *)
(* 85), so each read is a step of its own. call, outcome and the logs    *)
(* describe the call that returned last.                                 *)

\* the calibration files of SpecObsRace
ConcMaps ==
    {<<>>,
     <<Entry(<<"cam1">>, <<1, 0, 0>>)>>,
     <<Entry(<<"hand">>, <<1, 0, 0>>)>>,
     <<Entry(<<"hand">>, <<1, 0, 0>>),
       Entry(<<"hand", "_gripper_offset">>, <<0, 2, 1>>)>>}

\* extrinsics[cam_id] of lines 89-90 with no such key
KeyError == [type |-> "KeyError", at |-> "get_camera_extrinsics"]

\* whether the loop of lines 85-90 over `calibration` meets a wrist camera
\* that `extrinsics` has no entry for
RECURSIVE RaisesKeyError(_, _, _, _)
RaisesKeyError(extrinsics, calibration, i, gripper_pose) ==
    IF i > Len(calibration)
    THEN FALSE
    ELSE LET cam_id == calibration[i].id
         IN  IF ~Contains(cam_id, hand_camera_id)
             THEN RaisesKeyError(extrinsics, calibration, i + 1, gripper_pose)
             ELSE IF cam_id \notin DictKeys(extrinsics)
                  THEN TRUE
                  ELSE RaisesKeyError(
                           AdjustCamera(extrinsics, cam_id, gripper_pose),
                           calibration, i + 1, gripper_pose)

\* get_observation, lines 94-107: the robot state and the cameras are read;
\* get_camera_extrinsics is entered
obs_begin(gripper_pose, frames, intrinsics) ==
    /\ inflight = NoFlight
    /\ inflight' = [op |-> "get_observation", at |-> 84,
                    calibration_at_call |-> calibration_dict,
                    state_dict |-> [cartesian_position |-> gripper_pose],
                    frames |-> frames, intrinsics |-> intrinsics,
                    extrinsics |-> <<>>]
    /\ UNCHANGED <<envVars, calVars, ioVars, bootVars>>

\* line 84: extrinsics = deepcopy(self.calibration_dict)
obs_deepcopy ==
    /\ inflight.op = "get_observation"
    /\ inflight.at = 84
    /\ inflight' = [inflight EXCEPT !.at = 85, !.extrinsics = calibration_dict]
    /\ UNCHANGED <<envVars, calVars, ioVars, bootVars>>

\* lines 85-118: the loop over self.calibration_dict as line 85 reads it,
\* writing into the copy of line 84; then the intrinsics and the return
obs_loop ==
    /\ inflight.op = "get_observation"
    /\ inflight.at = 85
    /\ LET gripper_pose == inflight.state_dict.cartesian_position
       IN  IF RaisesKeyError(inflight.extrinsics, calibration_dict, 1,
                             gripper_pose)
           THEN /\ outcome' = Err(KeyError)
                /\ camera_log' = <<[fn |-> "read_cameras", arg |-> "none"]>>
           ELSE /\ outcome' =
                       Ok([robot_state |-> inflight.state_dict,
                           cameras |-> inflight.frames,
                           camera_type |-> camera_type,
                           camera_extrinsics |->
                               AdjustFrom(inflight.extrinsics, calibration_dict,
                                          1, gripper_pose),
                           camera_intrinsics |->
                               [c \in inflight.intrinsics |-> "cameraMatrix"],
                           shares |-> {}])
                /\ camera_log' = <<[fn |-> "read_cameras", arg |-> "none"],
                                    [fn |-> "get_intrinsics", arg |-> "none"]>>
    /\ call' = [op |-> "get_observation",
                calibration_at_call |-> inflight.calibration_at_call]
    /\ robot_log' = <<GetRobotState>>
    /\ inflight' = NoFlight
    /\ UNCHANGED <<envVars, calVars, bootVars>>

InitObsRace ==
    /\ action_space = cartesian_velocity
    /\ check_action_range = TRUE
    /\ DoF = 7
    /\ gripper_action_space = "velocity"
    /\ calibration_file \in ConcMaps
    /\ calibration_dict = calibration_file
    /\ camera_type = camera_type_dict
    /\ call = [op |-> "__init__"]
    /\ outcome = Ok("None")
    /\ robot_log = ResetCalls
    /\ camera_log = <<[fn |-> "set_camera_kwargs", arg |-> "default"]>>
    /\ BootIdle
    /\ inflight = NoFlight

NextObsRace ==
    \/ \E gripper_pose \in EEPoses : obs_begin(gripper_pose, Cameras, Cameras)
    \/ obs_deepcopy
    \/ obs_loop
    \/ reload_calibration
    \/ \E d \in ConcMaps : calibration_file_rewritten(d)

SpecObsRace == InitObsRace /\ [][NextObsRace]_vars

\* C12: the extrinsics of an observation are computed entirely from the
\* calibration map as it was when get_observation was called, whatever
\* reload_calibration does while the call is in progress: the call does not
\* fail on a lookup, and its camera_extrinsics are those of that one map.
C12_ExtrinsicsFromMapAtCall ==
    (call.op = "get_observation") =>
        /\ outcome.status = "ok"
        /\ outcome.value.camera_extrinsics =
               get_camera_extrinsics(call.calibration_at_call,
                                     outcome.value.robot_state)

---------------------------------------------------------------------------
(* SpecInitRace: an initialize in progress, statement by statement, while *)
(* a second caller steps the same FrankaEnv. FrankaEnv takes no lock.     *)

\* the arguments of the initialize of SpecInitRace
RaceActionSpaces == {joint_position, cartesian_velocity, <<"velocity">>}
RaceGripperSpaces == {"position", "velocity"}

InitializeCall(f) ==
    [op |-> "initialize", action_space |-> f.action_space,
     gripper_action_space |-> f.gripper_action_space,
     camera_kwargs |-> f.camera_kwargs]

\* the action space and the gripper action space of a configuration
ConfigPair(space, gripper) ==
    [action_space |-> space, gripper_action_space |-> gripper]

\* initialize is called (line 33); `before` is the configuration it finds
init_begin(space, gripper, kwargs, cameraOk) ==
    /\ inflight = NoFlight
    /\ inflight' = [op |-> "initialize", at |-> 122,
                    action_space |-> space, gripper_action_space |-> gripper,
                    camera_kwargs |-> kwargs, camera_ok |-> cameraOk,
                    before |-> ConfigPair(action_space, gripper_action_space)]
    /\ UNCHANGED <<envVars, calVars, ioVars, bootVars>>

\* line 35 -> line 122: the assert of set_action_space
init_assert ==
    /\ inflight.op = "initialize"
    /\ inflight.at = 122
    /\ IF inflight.action_space \in ValidActionSpaces
       THEN /\ inflight' = [inflight EXCEPT !.at = 123]
            /\ UNCHANGED ioVars
       ELSE /\ inflight' = NoFlight
            /\ call' = InitializeCall(inflight)
            /\ camera_log' = <<>>
            /\ robot_log' = <<>>
            /\ outcome' = Err(InvalidConfig)
    /\ UNCHANGED <<envVars, calVars, bootVars>>

\* line 123: self.action_space = action_space
init_action_space ==
    /\ inflight.op = "initialize"
    /\ inflight.at = 123
    /\ action_space' = inflight.action_space
    /\ inflight' = [inflight EXCEPT !.at = 124]
    /\ UNCHANGED <<check_action_range, DoF, gripper_action_space,
                   calVars, ioVars, bootVars>>

\* line 124: self.check_action_range = "velocity" in action_space
init_check_action_range ==
    /\ inflight.op = "initialize"
    /\ inflight.at = 124
    /\ check_action_range' = Contains(inflight.action_space, "velocity")
    /\ inflight' = [inflight EXCEPT !.at = 125]
    /\ UNCHANGED <<action_space, DoF, gripper_action_space,
                   calVars, ioVars, bootVars>>

\* line 125: self.DoF = 7 if ("cartesian" in action_space) else 8
init_DoF ==
    /\ inflight.op = "initialize"
    /\ inflight.at = 125
    /\ DoF' = IF Contains(inflight.action_space, "cartesian") THEN 7 ELSE 8
    /\ inflight' = [inflight EXCEPT !.at = 128]
    /\ UNCHANGED <<action_space, check_action_range, gripper_action_space,
                   calVars, ioVars, bootVars>>

\* line 36 -> line 128: self.gripper_action_space = gripper_action_space
init_gripper_action_space ==
    /\ inflight.op = "initialize"
    /\ inflight.at = 128
    /\ gripper_action_space' = inflight.gripper_action_space
    /\ inflight' = [inflight EXCEPT !.at = 37]
    /\ UNCHANGED <<action_space, check_action_range, DoF,
                   calVars, ioVars, bootVars>>

\* lines 37-38: set_camera_kwargs, whose exception ends the call, then reset
init_cameras_reset ==
    /\ inflight.op = "initialize"
    /\ inflight.at = 37
    /\ call' = InitializeCall(inflight)
    /\ camera_log' = <<[fn |-> "set_camera_kwargs",
                        arg |-> inflight.camera_kwargs]>>
    /\ IF inflight.camera_ok
       THEN /\ robot_log' = ResetCalls
            /\ outcome' = Ok("None")
       ELSE /\ robot_log' = <<>>
            /\ outcome' = Err(CameraError)
    /\ inflight' = NoFlight
    /\ UNCHANGED <<envVars, calVars, bootVars>>

NextInitRace ==
    \/ \E space \in RaceActionSpaces, gripper \in RaceGripperSpaces,
          cameraOk \in BOOLEAN :
            init_begin(space, gripper, "default", cameraOk)
    \/ init_assert
    \/ init_action_space
    \/ init_check_action_range
    \/ init_DoF
    \/ init_gripper_action_space
    \/ init_cameras_reset
    \/ \E action \in ObsActions : step(action, "info_a")

SpecInitRace == Init /\ [][NextInitRace]_vars

\* C13: initialize replaces the action space and the gripper action space
\* together: a step that runs while an initialize is in progress sends its
\* command either with both fields as the initialize found them or with both
\* fields as the initialize was asked to set them, never with one of each.
C13_ConfigurationReplacedTogether ==
    [][(/\ inflight.op = "initialize"
        /\ inflight' = inflight
        /\ call'.op = "step"
        /\ outcome'.status = "ok")
       => LET cmd == robot_log'[1]
          IN  ConfigPair(cmd.action_space, cmd.gripper_action_space) \in
                  {inflight.before,
                   ConfigPair(inflight.action_space,
                              inflight.gripper_action_space)}]_vars

=============================================================================
